---- MODULE Spec2Model ----
(***************************************************************************)
(* nanoconfig.data: the content-addressed dataset repository               *)
(* (FsDataRepository over an fsspec filesystem), the alias registry, the   *)
(* scoped writers, DataRepository.fetch, and the sha256 identity of        *)
(* sources, transforms and pipelines.                                      *)
(*                                                                         *)
(* Strings are sequences of one-character strings.  hashlib.sha256(...)    *)
(* .hexdigest() is modelled symbolically: the digest of s is s enclosed in *)
(* a pair of bracket characters that occur in no parameter.  This keeps    *)
(* the two properties of a hex digest the code relies on: the digest is an *)
(* injective function of its input, and a digest is self-delimiting inside *)
(* a "-"-joined string (a real digest has fixed length and no "-").        *)
(***************************************************************************)
EXTENDS Integers, Sequences, FiniteSets, TLC

\* ------------------------------------------------------------------ bounds
MaxTransforms == 2      \* longest transform list of a pipeline under test
MaxRows == 2            \* most batches one split writer is given

\* ------------------------------------------------------------- text helpers
Dash == <<"-">>

RECURSIVE Join(_, _)
\* sep.join(parts) for a sequence of strings
Join(sep, parts) ==
    IF Len(parts) = 0 THEN <<>>
    ELSE IF Len(parts) = 1 THEN parts[1]
    ELSE parts[1] \o sep \o Join(sep, Tail(parts))

\* hashlib.sha256(s.encode("utf-8")).hexdigest(), symbolically
Sha256Hex(s) == <<"[">> \o s \o <<"]">>

Digit(d) ==
    CASE d = 0 -> "0" [] d = 1 -> "1" [] d = 2 -> "2" [] d = 3 -> "3"
      [] d = 4 -> "4" [] d = 5 -> "5" [] d = 6 -> "6" [] d = 7 -> "7"
      [] d = 8 -> "8" [] d = 9 -> "9"

RECURSIVE IntStr(_)
\* str(n) for a non-negative int
IntStr(n) == IF n < 10 THEN <<Digit(n)>> ELSE IntStr(n \div 10) \o <<Digit(n % 10)>>

\* --------------------------------------------------- sources and transforms
\* HfDataSource(repo, subset, rev, content_sha, mime_type)
HfDataSource(repo, subset, rev, content_sha, mime_type) ==
    [kind |-> "hf", repo |-> repo, subset |-> subset, rev |-> rev,
     content_sha |-> content_sha, mime_type |-> mime_type]

\* HfDataSource.sha256
HfSha256(s) == Sha256Hex(s.repo \o Dash \o s.rev \o Dash \o s.content_sha)

\* DropColumns(*columns): self.columns is a set; `order` is the order in
\* which this process iterates that set
DropColumns(order) ==
    [kind |-> "drop", columns |-> order, width |-> 0, height |-> 0, mime_type |-> <<>>]
ResizeImages(w, h) ==
    [kind |-> "resize", columns |-> <<>>, width |-> w, height |-> h, mime_type |-> <<>>]
SetMimeType(m) ==
    [kind |-> "mime", columns |-> <<>>, width |-> 0, height |-> 0, mime_type |-> m]

\* DropColumns.sha256
DropColumnsSha256(t) == Sha256Hex(<<"d","r","o","p","-">> \o Join(Dash, t.columns))

\* ResizeImages.sha256
ResizeImagesSha256(t) ==
    Sha256Hex(<<"r","e","s","i","z","e","-","i","m","a","g","e","s","-">>
              \o IntStr(t.width) \o Dash \o IntStr(t.height))

\* SetMimeType.sha256
SetMimeTypeSha256(t) == Sha256Hex(<<"s","e","t","-","m","i","m","e","-">> \o t.mime_type)

\* t.sha256 for a DataTransform t
TransformSha256(t) ==
    CASE t.kind = "drop" -> DropColumnsSha256(t)
      [] t.kind = "resize" -> ResizeImagesSha256(t)
      [] t.kind = "mime" -> SetMimeTypeSha256(t)

\* DataPipeline(source, *transformations); `klass` tells which of the two
\* class definitions built it: "transform" (data/transform.py) or
\* "source" (data/source.py)
DataPipeline(klass, source, transformations) ==
    [kind |-> "pipeline", klass |-> klass, source |-> source,
     transformations |-> transformations]

\* DataPipeline.compose, both definitions
Compose(klass, source, transformations) == DataPipeline(klass, source, transformations)

RECURSIVE transformed_sha256(_, _)
\* data/transform.py DataPipeline.transformed_sha256, given data.sha256
transformed_sha256(dataSha, transforms) ==
    IF Len(transforms) = 0 THEN dataSha
    ELSE transformed_sha256(
            Sha256Hex(dataSha \o Dash \o TransformSha256(transforms[1])),
            Tail(transforms))

\* data/source.py DataPipeline.sha256, given self.source.sha256
FlatPipelineSha256(sourceSha, transforms) ==
    Sha256Hex(sourceSha \o Dash
              \o Join(Dash, [i \in 1..Len(transforms) |-> TransformSha256(transforms[i])]))

RECURSIVE SourceSha256(_)
\* s.sha256 for a DataSource s
SourceSha256(s) ==
    IF s.kind = "hf" THEN HfSha256(s)
    ELSE IF s.klass = "transform"
         THEN transformed_sha256(SourceSha256(s.source), s.transformations)
         ELSE FlatPipelineSha256(SourceSha256(s.source), s.transformations)

\* ------------------------------------------------- hash study: the inputs
None == <<"None">>

Repos == {<<"m">>, <<"m","-","x">>}
Revs == {<<"r">>, <<"x","-","r">>}
Subsets == {None, <<"s">>}
HfSources ==
    {HfDataSource(rp, sb, rv, <<"c">>, None) : rp \in Repos, sb \in Subsets, rv \in Revs}

ColA == <<"a">>
ColB == <<"b">>
ColAB == <<"a","-","b">>
ColumnSets == {{ColA}, {ColAB}, {ColA, ColB}}
\* the orders in which a process may iterate the set S
Orders(S) == {q \in [1..Cardinality(S) -> S] : \A i, j \in DOMAIN q : q[i] = q[j] => i = j}
ColumnOrders == UNION {Orders(S) : S \in ColumnSets}
Sizes == {<<1, 12>>, <<12, 1>>}
MimeTypes == {<<"x">>, <<"y">>}
Transforms ==
    {DropColumns(o) : o \in ColumnOrders}
      \cup {ResizeImages(wh[1], wh[2]) : wh \in Sizes}
      \cup {SetMimeType(m) : m \in MimeTypes}

RECURSIVE SeqsUpTo(_, _)
\* the sequences over S of length at most n
SeqsUpTo(S, n) ==
    IF n = 0 THEN {<<>>}
    ELSE LET shorter == SeqsUpTo(S, n - 1)
         IN shorter \cup {Append(q, x) : q \in shorter, x \in S}

MaxNest == 2            \* deepest nesting of compose calls

RECURSIVE Depth(_)
Depth(s) == IF s.kind = "hf" THEN 0 ELSE 1 + Depth(s.source)

\* ---------------------------------------------- the repository: the inputs
Callers == {1, 2}
Handles == {1, 2}

S1 == HfDataSource(<<"m">>, None, <<"r">>, <<"c">>, None)
S2 == HfDataSource(<<"n">>, None, <<"r">>, <<"c">>, None)
H1 == HfSha256(S1)
H2 == HfSha256(S2)
Hashes == {H1, H2}
Mnist == <<"m","n","i","s","t">>
AliasNames == {Mnist, H1}
Names == Hashes \cup {Mnist}
SplitNames == {"train", "aux"}
\* schemas of the batches handed to write_batch; "empty" has no fields
Schemas == {"empty", "a", "ab"}
\* 128 * 1024 * 1024 * 1024 bytes, counted in GiB
MAX_FILE_SIZE == 128
BatchSizes == {1, 129}  \* GiB; the second exceeds MAX_FILE_SIZE on its own

\* data.split_infos() of the Data that source.prepare(repo) hands to fetch:
\* one split "train" of one row
PreparedSplitInfos == [n \in {"train"} |-> 1]

\* the pipeline under study: source S1 and three transforms in order;
\* StageKey(k) is the sha256 of the Data that stage k of it is stored under
Stages == <<DropColumns(<<ColA>>), SetMimeType(<<"x">>), ResizeImages(1, 12)>>
StageKey(k) == transformed_sha256(H1, SubSeq(Stages, 1, k))
StageHashes == {StageKey(k) : k \in 0..Len(Stages)}
StageTransforms == {Stages[i] : i \in DOMAIN Stages}
Pipelines ==
    {DataPipeline(klass, S1, SubSeq(Stages, 1, k)) :
        klass \in {"transform", "source"}, k \in 0..Len(Stages)}
AllHashes == Hashes \cup StageHashes

NoName == <<>>
EmptyMap == [x \in {} |-> NoName]
\* a completed call; tick alternates so that a call that repeats the last
\* one with the same outcome is still a step
NoCall == [op |-> "none", arg |-> NoName, out |-> "none", sha |-> NoName, tick |-> 0]
NoWriter ==
    [sha |-> NoName, split |-> "", num_parts |-> 0, schema |-> "None",
     cur |-> FALSE, n |-> 0, opened |-> {}]

\* what fetch is handed: a string, or a DataSource seen through its abstract
\* interface: key is the string itself or source.sha256, prepared is the
\* sha256 of the Data that source.prepare(repo) returns
FetchInputs ==
    {[isstr |-> TRUE, key |-> k, prepared |-> NoName] : k \in Names}
      \cup {[isstr |-> FALSE, key |-> k, prepared |-> p] : k \in Hashes, p \in Hashes}

\* ------------------------------------------------------------------- state
VARIABLES
    base,       \* hash study: the innermost (HfDataSource) source
    cls,        \* hash study: which DataPipeline class is in use
    pending,    \* hash study: the transforms still to be composed, in order
    pl,         \* hash study: the DataSource built by the compose calls
    digest,     \* hash study: pl.sha256 as last computed
    dirs,       \* names of the directories under the repository root
    tree,       \* per entry directory: split directory -> sequence of shards
    registry,   \* registry.json: whether it exists and the map it holds
    aliases,    \* per repository handle: self._aliases
    pc,         \* per caller: where it stands in a multi-step call
    writer,     \* per caller: the FsDataWriter / LocalSplitWriter it holds
    last,       \* per caller: the call it completed last and its outcome
    initOk,     \* per hash: how many initialize calls reached their yield
    completed,  \* hashes whose initialize scope was left without an error
    classes,    \* config: per class object its MRO (without object) and fields
    variants    \* config: per class made by ConfigType its __variants__

hvars == <<base, cls, pending, pl, digest>>
rvars == <<dirs, tree, registry, aliases, pc, writer, last, initOk, completed>>
cvars == <<classes, variants>>
vars == <<base, cls, pending, pl, digest, dirs, tree, registry, aliases, pc, writer,
          last, initOk, completed, classes, variants>>

\* ------------------------------------------------------------- hash study
HashInit ==
    /\ base \in HfSources
    /\ cls \in {"transform", "source"}
    /\ pending \in SeqsUpTo(Transforms, MaxTransforms)
    /\ pl = base
    /\ digest = SourceSha256(base)

\* DataPipeline.compose(pl, *ts) with ts the next k pending transforms,
\* then .sha256 of the result
ComposeCall(k) ==
    /\ Depth(pl) < MaxNest
    /\ pl' = Compose(cls, pl, SubSeq(pending, 1, k))
    /\ pending' = SubSeq(pending, k + 1, Len(pending))
    /\ digest' = SourceSha256(pl')
    /\ UNCHANGED <<base, cls>>
    /\ UNCHANGED <<rvars, cvars>>

\* --------------------------------------------------------- the repository
RepoInit ==
    /\ dirs = {}
    /\ tree = [h \in {} |-> EmptyMap]
    /\ registry = [exists |-> FALSE, map |-> EmptyMap]
    /\ aliases = [r \in Handles |-> EmptyMap]
    /\ pc = [t \in Callers |-> "idle"]
    /\ writer = [t \in Callers |-> NoWriter]
    /\ last = [t \in Callers |-> NoCall]
    /\ initOk = [h \in AllHashes |-> 0]
    /\ completed = {}

\* dict with key k set to v / with key k deleted
MapSet(m, k, v) == [x \in DOMAIN m \cup {k} |-> IF x = k THEN v ELSE m[x]]
MapDel(m, k) == [x \in DOMAIN m \ {k} |-> m[x]]

Done(t, rec) == last' = [last EXCEPT ![t] = [rec EXCEPT !.tick = 1 - last[t].tick]]
Call(op, arg) == [NoCall EXCEPT !.op = op, !.arg = arg]

\* FsDataRepository.__init__ on the same root: _aliases is read from
\* registry.json when that file exists
Open(r) ==
    /\ aliases' = [aliases EXCEPT ![r] = IF registry.exists THEN registry.map ELSE EmptyMap]
    /\ aliases'[r] # aliases[r]
    /\ UNCHANGED <<dirs, tree, registry, pc, writer, last, initOk, completed>>
    /\ UNCHANGED <<hvars, cvars>>

\* FsDataRepository.lookup as a function of the handle and the file system:
\* the exception it raises or the FsData it returns
LookupResult(r, alias_or_sha) ==
    LET sha == IF alias_or_sha \in DOMAIN aliases[r]
               THEN aliases[r][alias_or_sha] ELSE alias_or_sha
        rec == Call("lookup", alias_or_sha)
    IN IF alias_or_sha \notin dirs
       THEN [rec EXCEPT !.out = "FileNotFoundError"]
       ELSE [rec EXCEPT !.out = "Data", !.sha = sha]

\* repo.lookup(alias_or_sha) called by caller t on handle r
Lookup(t, r, alias_or_sha) ==
    /\ pc[t] = "idle"
    /\ Done(t, LookupResult(r, alias_or_sha))
    /\ UNCHANGED <<dirs, tree, registry, aliases, pc, writer, initOk, completed>>
    /\ UNCHANGED <<hvars, cvars>>

\* register without the test for a registered alias: the alias is set anew
RegisterOverwrite(t, r, alias, sha) ==
    /\ pc[t] = "idle"
    /\ IF sha \notin dirs
       THEN /\ Done(t, [Call("register", alias) EXCEPT !.out = "FileNotFoundError", !.sha = sha])
            /\ UNCHANGED <<aliases, registry>>
       ELSE /\ aliases' = [aliases EXCEPT ![r] = MapSet(@, alias, sha)]
            /\ registry' = [exists |-> TRUE, map |-> aliases'[r]]
            /\ Done(t, [Call("register", alias) EXCEPT !.out = "ok", !.sha = sha])
    /\ UNCHANGED <<dirs, tree, pc, writer, initOk, completed>>
    /\ UNCHANGED <<hvars, cvars>>

\* register without the test that the hash has a directory in the store
RegisterUnchecked(t, r, alias, sha) ==
    /\ pc[t] = "idle"
    /\ IF alias \in DOMAIN aliases[r]
       THEN /\ Done(t, [Call("register", alias) EXCEPT !.out = "ValueError", !.sha = sha])
            /\ UNCHANGED <<aliases, registry>>
       ELSE /\ aliases' = [aliases EXCEPT ![r] = MapSet(@, alias, sha)]
            /\ registry' = [exists |-> TRUE, map |-> aliases'[r]]
            /\ Done(t, [Call("register", alias) EXCEPT !.out = "ok", !.sha = sha])
    /\ UNCHANGED <<dirs, tree, pc, writer, initOk, completed>>
    /\ UNCHANGED <<hvars, cvars>>

\* repo.register(alias, sha)
Register(t, r, alias, sha) ==
    /\ pc[t] = "idle"
    /\ IF alias \in DOMAIN aliases[r]
       THEN /\ Done(t, [Call("register", alias) EXCEPT !.out = "ValueError", !.sha = sha])
            /\ UNCHANGED <<aliases, registry>>
       ELSE IF sha \notin dirs
       THEN /\ Done(t, [Call("register", alias) EXCEPT !.out = "FileNotFoundError", !.sha = sha])
            /\ UNCHANGED <<aliases, registry>>
       ELSE /\ aliases' = [aliases EXCEPT ![r] = MapSet(@, alias, sha)]
            /\ registry' = [exists |-> TRUE, map |-> aliases'[r]]
            /\ Done(t, [Call("register", alias) EXCEPT !.out = "ok", !.sha = sha])
    /\ UNCHANGED <<dirs, tree, pc, writer, initOk, completed>>
    /\ UNCHANGED <<hvars, cvars>>

\* the hash that handle r's map gives the alias, NoName if it has none
Held(r, alias) == IF alias \in DOMAIN aliases[r] THEN aliases[r][alias] ELSE NoName

\* deregister that also removes the directory of the hash the alias had
DeregisterPurge(t, r, alias) ==
    /\ pc[t] = "idle"
    /\ IF alias \notin DOMAIN aliases[r]
       THEN UNCHANGED <<aliases, registry, dirs, tree>>
       ELSE /\ aliases' = [aliases EXCEPT ![r] = MapDel(@, alias)]
            /\ registry' = [exists |-> TRUE, map |-> aliases'[r]]
            /\ dirs' = dirs \ {aliases[r][alias]}
            /\ tree' = [h \in DOMAIN tree \ {aliases[r][alias]} |-> tree[h]]
    /\ Done(t, [Call("deregister", alias) EXCEPT !.out = "ok", !.sha = Held(r, alias)])
    /\ UNCHANGED <<pc, writer, initOk, completed>>
    /\ UNCHANGED <<hvars, cvars>>

\* repo.deregister(alias); the call's record keeps the hash the alias had
Deregister(t, r, alias) ==
    /\ pc[t] = "idle"
    /\ IF alias \notin DOMAIN aliases[r]
       THEN UNCHANGED <<aliases, registry>>
       ELSE /\ aliases' = [aliases EXCEPT ![r] = MapDel(@, alias)]
            /\ registry' = [exists |-> TRUE, map |-> aliases'[r]]
    /\ Done(t, [Call("deregister", alias) EXCEPT !.out = "ok", !.sha = Held(r, alias)])
    /\ UNCHANGED <<dirs, tree, pc, writer, initOk, completed>>
    /\ UNCHANGED <<hvars, cvars>>

\* cli.py remove_data((key,)): `nanoconfig data rm key` in a process of its
\* own.  DataRepository.default() opens a new FsDataRepository, whose map is
\* read from registry.json; lookup(key) raises unless the name key exists
\* under the root; deregister(key) rewrites the file if the map has the key;
\* repo.gc() is no attribute of FsDataRepository or DataRepository, so the
\* command ends with AttributeError and nothing is ever deleted
RemoveData(t, key) ==
    /\ pc[t] = "idle"
    /\ LET fresh == IF registry.exists THEN registry.map ELSE EmptyMap
       IN IF key \notin dirs
          THEN /\ Done(t, [Call("remove_data", key) EXCEPT !.out = "FileNotFoundError"])
               /\ UNCHANGED registry
          ELSE /\ registry' = IF key \in DOMAIN fresh
                              THEN [exists |-> TRUE, map |-> MapDel(fresh, key)]
                              ELSE registry
               /\ Done(t, [Call("remove_data", key) EXCEPT !.out = "AttributeError"])
    /\ UNCHANGED <<dirs, tree, aliases, pc, writer, initOk, completed>>
    /\ UNCHANGED <<hvars, cvars>>

\* an exception leaves the `with repo.initialize(...)` block of caller t:
\* neither FsDataWriter.split nor FsDataRepository.initialize has a
\* try/finally around its yield, so nothing is closed and nothing removed
Propagate(t, exc) ==
    /\ Done(t, [Call("scope", writer[t].sha) EXCEPT !.out = exc])
    /\ pc' = [pc EXCEPT ![t] = "idle"]
    /\ writer' = [writer EXCEPT ![t] = NoWriter]

\* repo.initialize(data_sha), up to the exists test
Initialize(t, data_sha) ==
    /\ pc[t] = "idle"
    /\ IF data_sha \in dirs
       THEN /\ Done(t, [Call("initialize", data_sha) EXCEPT !.out = "FileExistsError"])
            /\ UNCHANGED <<pc, writer>>
       ELSE /\ pc' = [pc EXCEPT ![t] = "init_mkdir"]
            /\ writer' = [writer EXCEPT ![t] = [NoWriter EXCEPT !.sha = data_sha]]
            /\ UNCHANGED last
    /\ UNCHANGED <<dirs, tree, registry, aliases, initOk, completed>>
    /\ UNCHANGED <<hvars, cvars>>

\* self._fs.mkdir(data_sha), first half.  self._fs is by default a
\* DirFileSystem over fsspec's LocalFileSystem, whose mkdir(path) raises
\* FileExistsError if exists(path) and otherwise calls
\* makedirs(path, exist_ok=True): a test and a creation, not one atomic call
InitMkdir(t) ==
    /\ pc[t] = "init_mkdir"
    /\ IF writer[t].sha \in dirs
       THEN /\ Done(t, [Call("initialize", writer[t].sha) EXCEPT !.out = "FileExistsError"])
            /\ pc' = [pc EXCEPT ![t] = "idle"]
            /\ writer' = [writer EXCEPT ![t] = NoWriter]
       ELSE /\ pc' = [pc EXCEPT ![t] = "init_makedirs"]
            /\ UNCHANGED <<writer, last>>
    /\ UNCHANGED <<dirs, tree, registry, aliases, initOk, completed>>
    /\ UNCHANGED <<hvars, cvars>>

\* ... second half: makedirs(exist_ok=True); then the FsDataWriter is yielded
InitMakedirs(t) ==
    /\ pc[t] = "init_makedirs"
    /\ dirs' = dirs \cup {writer[t].sha}
    /\ tree' = IF writer[t].sha \in DOMAIN tree THEN tree
               ELSE MapSet(tree, writer[t].sha, [n \in {} |-> <<>>])
    /\ initOk' = [initOk EXCEPT ![writer[t].sha] = @ + 1]
    /\ pc' = [pc EXCEPT ![t] = "scope"]
    /\ Done(t, [Call("initialize", writer[t].sha) EXCEPT !.out = "yield"])
    /\ UNCHANGED <<registry, aliases, writer, completed>>
    /\ UNCHANGED <<hvars, cvars>>

\* writer.aux(): makes the aux directory unless it exists
Aux(t) ==
    /\ pc[t] = "scope"
    /\ "aux" \notin DOMAIN tree[writer[t].sha]
    /\ tree' = [tree EXCEPT ![writer[t].sha] = MapSet(@, "aux", <<>>)]
    /\ UNCHANGED <<dirs, registry, aliases, pc, writer, last, initOk, completed>>
    /\ UNCHANGED <<hvars, cvars>>

\* writer.split(name), up to the exists test
SplitEnter(t, name) ==
    /\ pc[t] = "scope"
    /\ IF name \in DOMAIN tree[writer[t].sha]
       THEN Propagate(t, "FileExistsError")
       ELSE /\ pc' = [pc EXCEPT ![t] = "split_mkdir"]
            /\ writer' = [writer EXCEPT ![t].split = name]
            /\ UNCHANGED last
    /\ UNCHANGED <<dirs, tree, registry, aliases, initOk, completed>>
    /\ UNCHANGED <<hvars, cvars>>

\* self._fs.mkdir(name), first half
SplitMkdir(t) ==
    /\ pc[t] = "split_mkdir"
    /\ IF writer[t].split \in DOMAIN tree[writer[t].sha]
       THEN Propagate(t, "FileExistsError")
       ELSE /\ pc' = [pc EXCEPT ![t] = "split_makedirs"]
            /\ UNCHANGED <<writer, last>>
    /\ UNCHANGED <<dirs, tree, registry, aliases, initOk, completed>>
    /\ UNCHANGED <<hvars, cvars>>

\* self._fs.mkdir(name), second half; then LocalSplitWriter(fs, name) is
\* yielded
SplitMakedirs(t) ==
    /\ pc[t] = "split_makedirs"
    /\ tree' = IF writer[t].split \in DOMAIN tree[writer[t].sha] THEN tree
               ELSE [tree EXCEPT ![writer[t].sha] = MapSet(@, writer[t].split, <<>>)]
    /\ pc' = [pc EXCEPT ![t] = "in_split"]
    /\ writer' = [writer EXCEPT ![t] =
                    [NoWriter EXCEPT !.sha = writer[t].sha, !.split = writer[t].split,
                                     !.opened = writer[t].opened \cup {writer[t].split}]]
    /\ UNCHANGED <<dirs, registry, aliases, last, initOk, completed>>
    /\ UNCHANGED <<hvars, cvars>>

\* `not self._schema`: None and a schema without fields are both falsy
Falsy(schema) == schema \in {"None", "empty"}

NewShard(schema) == [rows |-> 0, size |-> 0, schema |-> schema, open |-> 1]
\* fs.open(part k, 'wb'): creates the file or truncates it
PutShard(shards, k, sh) ==
    IF k <= Len(shards) THEN [shards EXCEPT ![k] = sh] ELSE Append(shards, sh)
CloseShard(shards, k) == [shards EXCEPT ![k].open = IF @ > 0 THEN @ - 1 ELSE 0]

\* LocalSplitWriter.write_batch(batch), _check_writer included
WriteBatch(t, schema, size) ==
    /\ pc[t] = "in_split"
    /\ writer[t].n < MaxRows
    /\ LET w == writer[t]
           shards == tree[w.sha][w.split]
           schema1 == IF Falsy(w.schema) THEN schema ELSE w.schema
           roll == w.cur /\ shards[w.num_parts].size > MAX_FILE_SIZE
           shards1 == IF roll THEN CloseShard(shards, w.num_parts) ELSE shards
           cur1 == w.cur /\ ~roll
           parts2 == IF cur1 THEN w.num_parts ELSE w.num_parts + 1
           shards2 == IF cur1 THEN shards1 ELSE PutShard(shards1, parts2, NewShard(schema1))
       IN IF ~Falsy(w.schema) /\ w.schema # schema
          THEN /\ Propagate(t, "AssertionError")
               /\ UNCHANGED tree
          ELSE IF shards2[parts2].schema # schema
          THEN \* the ParquetWriter of the open shard was made for another schema
               /\ Propagate(t, "ValueError")
               /\ tree' = [tree EXCEPT ![w.sha][w.split] = shards2]
          ELSE /\ tree' = [tree EXCEPT ![w.sha][w.split] =
                             [shards2 EXCEPT ![parts2].rows = @ + 1,
                                             ![parts2].size = @ + size]]
               /\ writer' = [writer EXCEPT ![t] =
                               [w EXCEPT !.schema = schema1, !.num_parts = parts2,
                                         !.cur = TRUE, !.n = @ + 1]]
               /\ UNCHANGED <<pc, last>>
    /\ UNCHANGED <<dirs, registry, aliases, initOk, completed>>
    /\ UNCHANGED <<hvars, cvars>>

\* the body of `with writer.split(name)` ends: LocalSplitWriter.close()
SplitExit(t) ==
    /\ pc[t] = "in_split"
    /\ tree' = IF writer[t].cur
               THEN [tree EXCEPT ![writer[t].sha][writer[t].split] =
                        CloseShard(@, writer[t].num_parts)]
               ELSE tree
    /\ pc' = [pc EXCEPT ![t] = "scope"]
    /\ writer' = [writer EXCEPT ![t] = [NoWriter EXCEPT !.sha = writer[t].sha,
                                                        !.opened = writer[t].opened]]
    /\ UNCHANGED <<dirs, registry, aliases, last, initOk, completed>>
    /\ UNCHANGED <<hvars, cvars>>

\* the caller's code inside the scope raises (an unsupported schema, a
\* failed download, an interrupt)
BodyRaise(t) ==
    /\ pc[t] \in {"scope", "in_split"}
    /\ Propagate(t, "Exception")
    /\ UNCHANGED <<dirs, tree, registry, aliases, initOk, completed>>
    /\ UNCHANGED <<hvars, cvars>>

\* the body of `with repo.initialize(...)` ends without an error
ScopeExit(t) ==
    /\ pc[t] = "scope"
    /\ completed' = completed \cup {writer[t].sha}
    /\ Done(t, [Call("scope", writer[t].sha) EXCEPT !.out = "ok"])
    /\ pc' = [pc EXCEPT ![t] = "idle"]
    /\ writer' = [writer EXCEPT ![t] = NoWriter]
    /\ UNCHANGED <<dirs, tree, registry, aliases, initOk>>
    /\ UNCHANGED <<hvars, cvars>>

\* DataRepository.fetch(source) on handle r as a function of the state: the
\* call's outcome and the set of directories its initialize creates.
\* DataWriter.write iterates the splits and batches of the prepared Data
\* and writes none of them.  The branches after a lookup that returned None
\* are kept as the code has them; FsDataRepository.lookup never returns None.
FetchRun(r, src) ==
    LET d1 == LookupResult(r, src.key)
        rec == Call(IF src.isstr THEN "fetch_str" ELSE "fetch", src.key)
        d2 == LookupResult(r, src.prepared)
        \* the last lookup, in the file system as initialize leaves it
        d3 == [out |-> "Data",
               sha |-> IF src.prepared \in DOMAIN aliases[r]
                       THEN aliases[r][src.prepared] ELSE src.prepared]
    IN  IF d1.out = "FileNotFoundError"
        THEN [rec |-> [rec EXCEPT !.out = "FileNotFoundError"], made |-> {}]
        ELSE IF d1.out # "None"
        THEN [rec |-> [rec EXCEPT !.out = "Data", !.sha = d1.sha], made |-> {}]
        ELSE IF src.isstr
        THEN [rec |-> [rec EXCEPT !.out = "ValueError"], made |-> {}]
        ELSE IF src.prepared # src.key
        THEN [rec |-> [rec EXCEPT !.out = "AssertionError"], made |-> {}]
        ELSE IF d2.out = "FileNotFoundError"
        THEN [rec |-> [rec EXCEPT !.out = "FileNotFoundError"], made |-> {}]
        ELSE IF d2.out # "None"
        THEN [rec |-> [rec EXCEPT !.out = "Data", !.sha = src.prepared], made |-> {}]
        ELSE IF src.prepared \in dirs
        THEN [rec |-> [rec EXCEPT !.out = "FileExistsError"], made |-> {}]
        ELSE [rec |-> [rec EXCEPT !.out = d3.out, !.sha = d3.sha],
              made |-> {src.prepared}]

\* repo.fetch(source) called by caller t on handle r
Fetch(t, r, src) ==
    /\ pc[t] = "idle"
    /\ LET run == FetchRun(r, src)
       IN /\ Done(t, run.rec)
          /\ dirs' = dirs \cup run.made
          /\ tree' = [h \in DOMAIN tree \cup run.made |->
                        IF h \in DOMAIN tree THEN tree[h] ELSE [n \in {} |-> <<>>]]
          /\ initOk' = [h \in DOMAIN initOk |->
                          IF h \in run.made THEN initOk[h] + 1 ELSE initOk[h]]
          /\ completed' = completed \cup run.made
    /\ UNCHANGED <<registry, aliases, pc, writer>>
    /\ UNCHANGED <<hvars, cvars>>

RECURSIVE NumRows(_)
\* the rows of a split: the sum over its shard files
NumRows(shards) == IF Len(shards) = 0 THEN 0 ELSE shards[1].rows + NumRows(Tail(shards))

\* FsData.split_infos() for an entry directory, as far as the claims read
\* it: the names of the directories that hold a parquet file (those under
\* aux/ are skipped) and the size of each
split_infos(entry) ==
    [n \in {x \in DOMAIN entry \ {"aux"} : Len(entry[x]) > 0} |-> NumRows(entry[n])]

\* DropColumns / ResizeImages / SetMimeType .transform(data, repo) on handle
\* r as a function of the state, given data.sha256: dest_sha is the chained
\* hash; repo.lookup(dest_sha) raises or returns the FsData, which is
\* returned.  The branch for a lookup that returned None is kept as the code
\* has it: `with repo.init(dest_sha)` names no attribute of the repository,
\* so the body that would write the splits is never entered.
TransformRun(r, dataSha, tr) ==
    LET dest_sha == transformed_sha256(dataSha, <<tr>>)
        final == LookupResult(r, dest_sha)
        rec == Call("transform", dest_sha)
    IN  IF final.out = "FileNotFoundError"
        THEN [rec EXCEPT !.out = "FileNotFoundError"]
        ELSE IF final.out # "None"
        THEN [rec EXCEPT !.out = "Data", !.sha = final.sha]
        ELSE [rec EXCEPT !.out = "AttributeError"]

\* t.transform(data, repo) called by caller t on handle r
Transform(t, r, dataSha, tr) ==
    /\ pc[t] = "idle"
    /\ Done(t, TransformRun(r, dataSha, tr))
    /\ UNCHANGED <<dirs, tree, registry, aliases, pc, writer, initOk, completed>>
    /\ UNCHANGED <<hvars, cvars>>

\* HfDataSource.prepare(repo): the lookup of self.sha256 raises or returns
\* the FsData; the download under `with repo.init(self.sha256)` follows only
\* a lookup that returned None
HfPrepareRun(r, s) ==
    LET data == LookupResult(r, HfSha256(s))
        rec == Call("prepare", HfSha256(s))
    IN  IF data.out = "FileNotFoundError"
        THEN [rec EXCEPT !.out = "FileNotFoundError"]
        ELSE IF data.out # "None"
        THEN [rec EXCEPT !.out = "Data", !.sha = data.sha]
        ELSE [rec EXCEPT !.out = "AttributeError"]

RECURSIVE TransformAll(_, _, _)
\* the loop of DataPipeline.prepare: data = t.transform(data, repo) for each
\* t in order, left by the first exception
TransformAll(r, data, ts) ==
    IF Len(ts) = 0 THEN data
    ELSE LET next == TransformRun(r, data.sha, ts[1])
         IN IF next.out = "Data" THEN TransformAll(r, next, Tail(ts)) ELSE next

RECURSIVE PrepareRun(_, _)
\* s.prepare(repo) for a DataSource s
PrepareRun(r, s) ==
    IF s.kind = "hf" THEN HfPrepareRun(r, s)
    ELSE LET data == PrepareRun(r, s.source)
         IN IF data.out = "Data" THEN TransformAll(r, data, s.transformations) ELSE data

\* source.prepare(repo) called by caller t on handle r; the record is that
\* of the call that raised, or of the last stage, under the source's sha256
Prepare(t, r, s) ==
    /\ pc[t] = "idle"
    /\ LET run == PrepareRun(r, s)
       IN Done(t, [Call("prepare", SourceSha256(s)) EXCEPT !.out = run.out, !.sha = run.sha])
    /\ UNCHANGED <<dirs, tree, registry, aliases, pc, writer, initOk, completed>>
    /\ UNCHANGED <<hvars, cvars>>

\* ------------------------------------------------------ the config classes
\* A class object is named by the class statement's name and by whether it
\* is the class the statement made ("cls") or the subclass config returns
\* ("clz"); both carry the same __name__.
Cls(name) == <<name, "cls">>
Clz(name) == <<name, "clz">>
Config == Clz("Config")
NoParent == "object"
NoVariant == "None"
ClassNames == {"VariantBase", "Variant1", "Variant2"}
Variants == {"base", "v1"}
NoFields == [f \in {} |-> ""]
\* the annotated fields of a class body with their defaults
ClassBodies ==
    { [f \in {"a"} |-> "1"],
      [f \in {"a", "b", "c"} |-> IF f = "a" THEN "2" ELSE IF f = "b" THEN "b1" ELSE "foo"] }

\* class Config(object, metaclass=ConfigType): ConfigType.__init__ gives it
\* an empty __variants__
ConfigInit ==
    /\ classes = [c \in {Config} |-> [mro |-> <<Config>>, fields |-> NoFields]]
    /\ variants = [c \in {Config} |-> [v \in {} |-> Config]]

\* the members of a class's MRO (object left out)
Mro(table, c) == {table[c].mro[i] : i \in DOMAIN table[c].mro}

\* a registration that reaches the returned class only, not its bases
RegisterVariantOwnOnly(table, made, clz, variant) ==
    [c \in DOMAIN table |->
        IF c = clz
        THEN [v \in DOMAIN table[c] \cup {variant} |->
                 IF v = variant THEN clz ELSE table[c][v]]
        ELSE table[c]]

\* for base_cls in clz.mro()[:-1]: if isinstance(base_cls, ConfigType):
\*     base_cls.__variants__[variant] = clz
RegisterVariant(table, made, clz, variant) ==
    [c \in DOMAIN table |->
        IF c \in Mro(made, clz)
        THEN [v \in DOMAIN table[c] \cup {variant} |->
                 IF v = variant THEN clz ELSE table[c][v]]
        ELSE table[c]]

\* @config(variant=variant) class name(parent): body
\* parent is a class config returned earlier, or no base at all; strType
\* says that a field's annotation is a string, which config rejects with a
\* TypeError after it made clz and before it registers the variant.
config(name, parent, variant, body, strType) ==
    /\ Cls(name) \notin DOMAIN classes
    /\ parent # NoParent => Clz(parent) \in DOMAIN classes
    /\ LET orig == Cls(name)
           clz == Clz(name)
           inherited == IF parent = NoParent THEN NoFields
                        ELSE classes[Clz(parent)].fields
           \* dataclass(cls, frozen=True): the bases' fields, overridden
           fields == [f \in DOMAIN inherited \cup DOMAIN body |->
                         IF f \in DOMAIN body THEN body[f] ELSE inherited[f]]
           clsMro == IF parent = NoParent THEN <<orig>>
                     ELSE <<orig>> \o classes[Clz(parent)].mro
           \* class clz(cls, Config, metaclass=metaclass)
           clzMro == IF parent = NoParent THEN <<clz, orig, Config>>
                     ELSE <<clz>> \o clsMro
           made == [c \in DOMAIN classes \cup {orig, clz} |->
                       IF c = orig THEN [mro |-> clsMro, fields |-> fields]
                       ELSE IF c = clz THEN [mro |-> clzMro, fields |-> fields]
                       ELSE classes[c]]
           \* type(cls) is ConfigType exactly when a base's is;
           \* ConfigType.__init__ starts every such class with an empty table
           typed == {clz} \cup (IF parent = NoParent THEN {} ELSE {orig})
           fresh == [c \in DOMAIN variants \cup typed |->
                        IF c \in typed THEN [v \in {} |-> Config] ELSE variants[c]]
       IN  /\ classes' = made
           /\ variants' = IF strType \/ variant = NoVariant THEN fresh
                          ELSE RegisterVariant(fresh, made, clz, variant)
    /\ UNCHANGED <<hvars, rvars>>

\* ---------------------------------------------------------- specifications
\* The API used by one caller through two repository handles on one root
Init ==
    /\ RepoInit
    /\ ConfigInit
    /\ base = S1 /\ cls = "transform" /\ pending = <<>> /\ pl = S1
    /\ digest = SourceSha256(S1)

Next ==
    \/ \E r \in Handles, x \in Names : Lookup(1, r, x)
    \/ \E r \in Handles, a \in AliasNames, h \in Hashes : Register(1, r, a, h)
    \/ \E r \in Handles, a \in AliasNames : Deregister(1, r, a)
    \/ \E k \in Names : RemoveData(1, k)
    \/ \E r \in Handles : Open(r)
    \/ \E h \in Hashes : Initialize(1, h)
    \/ InitMkdir(1)
    \/ InitMakedirs(1)
    \/ BodyRaise(1)
    \/ ScopeExit(1)
    \/ \E r \in Handles, src \in FetchInputs : Fetch(1, r, src)

Spec == Init /\ [][Next]_vars

\* Two callers of one process on one handle
ConcNext ==
    \/ \E t \in Callers, x \in Names : Lookup(t, 1, x)
    \/ \E t \in Callers, h \in Hashes : Initialize(t, h)
    \/ \E t \in Callers : InitMkdir(t)
    \/ \E t \in Callers : InitMakedirs(t)
    \/ \E t \in Callers : BodyRaise(t)
    \/ \E t \in Callers : ScopeExit(t)
    \/ \E t \in Callers, src \in FetchInputs : Fetch(t, 1, src)

ConcSpec == Init /\ [][ConcNext]_vars

\* One caller writing one entry
WriterNext ==
    \/ Initialize(1, H1)
    \/ InitMkdir(1)
    \/ InitMakedirs(1)
    \/ Aux(1)
    \/ \E n \in SplitNames : SplitEnter(1, n)
    \/ SplitMkdir(1)
    \/ SplitMakedirs(1)
    \/ \E sc \in Schemas, sz \in BatchSizes : WriteBatch(1, sc, sz)
    \/ SplitExit(1)
    \/ BodyRaise(1)
    \/ ScopeExit(1)
    \/ Lookup(1, 1, H1)

WriterSpec == Init /\ [][WriterNext]_vars

\* One caller and one handle: the stages of one pipeline, their entries
\* made through initialize; the entry of the source is given a split
\* "train" with batches of one schema, the other entries no split
PipeNext ==
    \/ \E h \in StageHashes : Initialize(1, h)
    \/ InitMkdir(1)
    \/ InitMakedirs(1)
    \/ writer[1].sha = H1 /\ SplitEnter(1, "train")
    \/ SplitMkdir(1)
    \/ SplitMakedirs(1)
    \/ WriteBatch(1, "a", 1)
    \/ SplitExit(1)
    \/ BodyRaise(1)
    \/ ScopeExit(1)
    \/ \E d \in StageHashes, tr \in StageTransforms : Transform(1, 1, d, tr)
    \/ \E s \in Pipelines : Prepare(1, 1, s)

PipeSpec == Init /\ [][PipeNext]_vars

\* The sha256 properties as pure functions of the declared parameters
HashStudyInit ==
    /\ HashInit
    /\ RepoInit
    /\ ConfigInit

HashNext == \E k \in 0..Len(pending) : ComposeCall(k)

HashSpec == HashStudyInit /\ [][HashNext]_vars

\* The class statements of a program under the config decorator
ConfigNext ==
    \E name \in ClassNames, parent \in ClassNames \cup {NoParent},
       variant \in Variants \cup {NoVariant}, body \in ClassBodies,
       strType \in BOOLEAN :
        config(name, parent, variant, body, strType)

ConfigSpec == Init /\ [][ConfigNext]_vars

\* ------------------------------------------------------------ the claims
RECURSIVE Chain(_, _)
\* h0 = h0, hi = sha256(h(i-1) + "-" + transform_i.sha256), read at i = n
Chain(h0, ts) ==
    IF Len(ts) = 0 THEN h0
    ELSE Sha256Hex(Chain(h0, SubSeq(ts, 1, Len(ts) - 1)) \o Dash
                   \o TransformSha256(ts[Len(ts)]))

\* C1: chain associativity.  For a source S and transforms t1, t2,
\* compose(compose(S, t1), t2).sha256 equals compose(S, t1, t2).sha256,
\* whichever of the two DataPipeline classes is used.
C1_ChainAssociativity ==
    (/\ pl.kind = "pipeline"
     /\ Len(pl.transformations) = 1
     /\ pl.source.kind = "pipeline"
     /\ Len(pl.source.transformations) = 1)
    => digest = SourceSha256(Compose(cls, pl.source.source,
                                     pl.source.transformations \o pl.transformations))

\* C2: the sha256 of a pipeline over a source is the iterated hash chain
\* over its transforms, and with no transforms it is the source's sha256.
C2_IteratedChain ==
    (pl.kind = "pipeline" /\ pl.source.kind = "hf")
    => digest = Chain(HfSha256(pl.source), pl.transformations)

\* C3: at most one write.  However the initialize(hash) calls of two
\* callers interleave, at most one of them reaches its yield for a hash.
C3_AtMostOneWrite == \A h \in Hashes : initOk[h] <= 1

\* C4: idempotent materialization.  A fetch of a DataSource that follows a
\* fetch of the same DataSource returns the stored Dataset of that hash,
\* initializes nothing itself, and the hash was initialized exactly once.
C4_IdempotentFetch ==
    [][\A r \in Handles, src \in FetchInputs :
        (/\ Fetch(1, r, src)
         /\ ~src.isstr
         /\ last[1].op = "fetch"
         /\ last[1].arg = src.key)
        => (/\ last'[1].out = "Data"
            /\ last'[1].sha = src.key
            /\ initOk[src.key] = 1
            /\ initOk' = initOk)]_vars

\* C5: a fetch of a DataSource whose sha256 is not in the store returns a
\* Dataset with that sha256, and the store then holds an entry for it.
C5_FetchMissMaterializes ==
    [][\A r \in Handles, src \in FetchInputs :
        (/\ Fetch(1, r, src)
         /\ ~src.isstr
         /\ src.prepared = src.key
         /\ src.key \notin dirs)
        => (/\ last'[1].out = "Data"
            /\ last'[1].sha = src.key
            /\ src.key \in dirs')]_vars

\* C6: when two callers have each fetched the same DataSource, neither
\* fetch has failed: both hold a Dataset for its hash.
C6_ConcurrentFetch ==
    \A h \in Hashes :
        (\A t \in Callers : last[t].op = "fetch" /\ last[t].arg = h)
        => (\A t \in Callers : last[t].out = "Data" /\ last[t].sha = h)

\* C7: a fetch of a DataSource that is not in the store and whose prepare
\* returns a Dataset with another sha256 fails with the integrity error
\* (the assertion), initializes nothing and adds no entry.
C7_HashMismatch ==
    [][\A r \in Handles, src \in FetchInputs :
        (/\ Fetch(1, r, src)
         /\ ~src.isstr
         /\ src.prepared # src.key
         /\ src.key \notin dirs)
        => (/\ last'[1].out = "AssertionError"
            /\ dirs' = dirs
            /\ initOk' = initOk)]_vars

\* C8: lookup and fetch return a Dataset for a hash only if an initialize
\* scope for that hash was left without an error.
C8_PresentOnlyIfCompleted ==
    \A t \in Callers :
        (last[t].op \in {"lookup", "fetch", "fetch_str"} /\ last[t].out = "Data")
        => last[t].sha \in completed

\* C9: lookup of a hash that the store does not hold returns None.
C9_LookupAbsentIsNone ==
    \A t \in Callers :
        (last[t].op = "lookup" /\ last[t].arg \in Hashes /\ last[t].arg \notin dirs)
        => last[t].out = "None"

\* C10: lookup of a registered alias returns the Dataset of the hash the
\* alias was registered for, the same that lookup of that hash returns.
C10_AliasResolution ==
    [][\A r \in Handles, a \in AliasNames :
        (Lookup(1, r, a) /\ a \in DOMAIN aliases[r])
        => (/\ last'[1].out = "Data"
            /\ last'[1].sha = aliases[r][a]
            /\ last'[1].sha = LookupResult(r, aliases[r][a]).sha)]_vars

C13_RegistryIntegrity ==
    [][/\ \A a \in DOMAIN registry'.map : registry'.map[a] \in dirs'
       /\ \A r \in Handles : \A a \in DOMAIN aliases'[r] : aliases'[r][a] \in dirs'
       /\ \A a \in DOMAIN registry.map : registry.map[a] \in dirs']_vars

\* `data rm` has taken one alias out of the registry and ended at repo.gc();
\* another alias stands for the same hash, whose directory is still there
C13_Witness ==
    /\ last[1].op = "remove_data"
    /\ last[1].out = "AttributeError"
    /\ last[1].arg \notin DOMAIN registry.map
    /\ \E r \in Handles :
        /\ last[1].arg \in DOMAIN aliases[r]
        /\ \E a \in DOMAIN registry.map :
            /\ registry.map[a] = aliases[r][last[1].arg]
            /\ registry.map[a] \in dirs

\* C14: after every register or deregister that returns normally,
\* registry.json holds exactly the alias map of the handle the call was made
\* on (no file standing for the empty map), so that a repository opened on
\* the root at that moment has the same keys and the same hash for each.
C14_RegistryFileIsMap ==
    [][\A r \in Handles, a \in AliasNames :
        ((\E h \in Hashes : Register(1, r, a, h) /\ last'[1].out = "ok")
           \/ Deregister(1, r, a))
        => (IF registry'.exists THEN registry'.map ELSE EmptyMap) = aliases'[r]]_vars

\* C15: no lost update.  With two handles open on one root, an alias that
\* one handle holds and that is in registry.json is still in the file, with
\* the same hash, after the other handle registers or deregisters another
\* alias.
C15_NoLostUpdate ==
    [][\A r, r2 \in Handles, a, b \in AliasNames :
        (/\ r # r2
         /\ a # b
         /\ a \in DOMAIN aliases[r2]
         /\ a \in DOMAIN registry.map
         /\ (\E h \in Hashes : Register(1, r, b, h)) \/ Deregister(1, r, b))
        => (/\ a \in DOMAIN registry'.map
            /\ registry'.map[a] = registry.map[a])]_vars

\* C16: transform is idempotent.  A t.transform(data, repo) that follows the
\* same call returns the Dataset of the chained hash, the same output as
\* the first call, and initializes nothing.
C16_TransformIdempotent ==
    [][\A d \in StageHashes, tr \in StageTransforms :
        (/\ Transform(1, 1, d, tr)
         /\ last[1].op = "transform"
         /\ last[1].arg = transformed_sha256(d, <<tr>>))
        => (/\ last'[1].out = "Data"
            /\ last'[1].sha = transformed_sha256(d, <<tr>>)
            /\ last[1].out = "Data"
            /\ last[1].sha = last'[1].sha
            /\ initOk' = initOk)]_vars

\* C17: on a cache miss, t.transform(data, repo) on a stored input makes
\* exactly one new entry, keyed by sha256(data.sha256 + "-" + t.sha256),
\* and returns the Dataset of that entry, which has the split names and the
\* row counts of the input.
C17_TransformMiss ==
    [][\A d \in StageHashes, tr \in StageTransforms :
        (/\ Transform(1, 1, d, tr)
         /\ d \in completed
         /\ transformed_sha256(d, <<tr>>) \notin dirs)
        => (/\ last'[1].out = "Data"
            /\ last'[1].sha = transformed_sha256(d, <<tr>>)
            /\ dirs' = dirs \cup {transformed_sha256(d, <<tr>>)}
            /\ transformed_sha256(d, <<tr>>) \in DOMAIN tree'
            /\ split_infos(tree'[transformed_sha256(d, <<tr>>)]) = split_infos(tree[d]))]_vars

\* C18: prefix sharing.  When Pipeline(A, t1, t2).prepare(repo) has returned
\* and the t3 stage is not stored, Pipeline(A, t1, t2, t3).prepare(repo)
\* returns the Dataset of the t3 stage and makes exactly that one new entry.
C18_PrefixSharing ==
    [][(/\ Prepare(1, 1, DataPipeline("transform", S1, Stages))
        /\ last[1].op = "prepare"
        /\ last[1].arg = StageKey(2)
        /\ last[1].out = "Data"
        /\ StageKey(3) \notin dirs)
       => (/\ last'[1].out = "Data"
           /\ last'[1].sha = StageKey(3)
           /\ dirs' = dirs \cup {StageKey(3)}
           /\ initOk' = [initOk EXCEPT ![StageKey(3)] = 1])]_vars

\* C19: fetch of a string.  For an alias the handle holds, fetch returns the
\* stored Dataset of the alias's hash; for a string that is neither an alias
\* nor a stored hash it fails with the not-found error; in both cases it
\* initializes nothing, creates no entry and leaves the registry as it was.
C19_FetchString ==
    [][\A r \in Handles, src \in FetchInputs :
        (Fetch(1, r, src) /\ src.isstr)
        => (/\ src.key \in DOMAIN aliases[r]
               => (last'[1].out = "Data" /\ last'[1].sha = aliases[r][src.key])
            /\ (src.key \notin DOMAIN aliases[r] /\ src.key \notin dirs)
               => last'[1].out = "FileNotFoundError"
            /\ dirs' = dirs
            /\ tree' = tree
            /\ initOk' = initOk
            /\ registry' = registry
            /\ aliases' = aliases)]_vars

\* C20: when fetch materializes a prepared Dataset that the store does not
\* hold, it returns the Dataset of the new entry, and that entry has the
\* split names and the rows per split of the prepared Dataset.
C20_FetchWritesContent ==
    [][\A r \in Handles, src \in FetchInputs :
        (/\ Fetch(1, r, src)
         /\ ~src.isstr
         /\ src.prepared = src.key
         /\ src.key \notin dirs)
        => (/\ last'[1].out = "Data"
            /\ last'[1].sha = src.key
            /\ src.key \in DOMAIN tree'
            /\ split_infos(tree'[src.key]) = PreparedSplitInfos)]_vars

\* C21: within one split writer the first write_batch fixes the schema: a
\* later write_batch with another schema fails with the schema-mismatch
\* error (the assertion), writes no row, and the split is then not among
\* the splits that the entry lists.
C21_SchemaMismatch ==
    [][\A sc \in Schemas, sz \in BatchSizes :
        (/\ WriteBatch(1, sc, sz)
         /\ writer[1].n >= 1
         /\ tree[writer[1].sha][writer[1].split][1].schema # sc)
        => (/\ last'[1].out = "AssertionError"
            /\ NumRows(tree'[writer[1].sha][writer[1].split])
                 = NumRows(tree[writer[1].sha][writer[1].split])
            /\ writer[1].split \notin DOMAIN split_infos(tree'[writer[1].sha]))]_vars

\* C22: writer.split(name) fails with the already-exists error
\* (FileExistsError) when this writer has opened a split of that name, and
\* then leaves every split's shards as they were; for a name that this
\* writer has not opened, the call goes on to open the split.
C22_SplitTwice ==
    [][\A name \in SplitNames :
        /\ (SplitEnter(1, name) /\ name \in writer[1].opened)
           => (last'[1].out = "FileExistsError" /\ tree' = tree)
        /\ (SplitEnter(1, name) /\ name \notin writer[1].opened)
           => pc'[1] = "split_mkdir"
        /\ SplitMkdir(1) => pc'[1] = "split_makedirs"
        /\ SplitMakedirs(1) => pc'[1] = "in_split"]_vars

\* C23: scoped writers are released on every exit path.  Whenever the
\* caller is outside every `with writer.split(name)` body, whether the body
\* ended normally or by an exception, no shard file of any split is open.
C23_ScopedRelease ==
    pc[1] \in {"idle", "scope"}
    => \A h \in DOMAIN tree : \A name \in DOMAIN tree[h] :
          \A i \in DOMAIN tree[h][name] : tree[h][name][i].open = 0

\* the declared parameters of two transforms are the same: the same class,
\* the same set of columns, the same size, the same mime type
SameParameters(t1, t2) ==
    /\ t1.kind = t2.kind
    /\ {t1.columns[i] : i \in DOMAIN t1.columns} = {t2.columns[i] : i \in DOMAIN t2.columns}
    /\ t1.width = t2.width
    /\ t1.height = t2.height
    /\ t1.mime_type = t2.mime_type

\* C24: determinism.  The sha256 of a transform is a function of its
\* declared parameters: an instance with the same parameters, built in this
\* or in another process run, has the same sha256, and the sha256 of the
\* source read again is the digest read before.
C24_Determinism ==
    /\ digest = SourceSha256(pl)
    /\ pl.kind = "pipeline"
       => \A i \in DOMAIN pl.transformations : \A t2 \in Transforms :
             SameParameters(pl.transformations[i], t2)
             => TransformSha256(pl.transformations[i]) = TransformSha256(t2)

\* C25: no collisions between different content.  An HfDataSource that
\* differs from the source in a declared field has another sha256, and a
\* transform whose declared parameters differ from those of a transform of
\* the pipeline has another sha256.
C25_NoCollisions ==
    /\ \A s2 \in HfSources : s2 # base => HfSha256(s2) # HfSha256(base)
    /\ pl.kind = "pipeline"
       => \A i \in DOMAIN pl.transformations : \A t2 \in Transforms :
             ~SameParameters(pl.transformations[i], t2)
             => TransformSha256(pl.transformations[i]) # TransformSha256(t2)

\* C26: when pipeline.prepare(repo) returns, for a pipeline of either
\* DataPipeline class whose source's prepare returned the Dataset of
\* source.sha256, the Dataset returned has the sha256 that the pipeline
\* declares.
C26_PrepareMatchesSha256 ==
    [][\A s \in Pipelines :
        (Prepare(1, 1, s) /\ last'[1].out = "Data")
        => last'[1].sha = SourceSha256(s)]_vars

\* C27: sharding is transparent.  A write_batch that returns puts its batch
\* into exactly one shard, the last one; it starts a shard only as the
\* first of the split or when the last one exceeded MAX_FILE_SIZE; it
\* leaves the shards before it as they were, so no part number is used
\* twice; at most one shard is open.  When the split's scope ends, the
\* split as read back has as many rows as batches were written.
C27_ShardingTransparent ==
    [][LET w == writer[1]
           old == tree[w.sha][w.split]
           new == tree'[w.sha][w.split]
       IN /\ \A sc \in Schemas, sz \in BatchSizes :
                (WriteBatch(1, sc, sz) /\ pc'[1] = "in_split")
                => (/\ Len(new) \in {Len(old), Len(old) + 1}
                    /\ Len(new) = Len(old) + 1
                       => (Len(old) = 0 \/ old[Len(old)].size > MAX_FILE_SIZE)
                    /\ \A i \in 1..Len(old) : i < Len(new) => new[i].rows = old[i].rows
                    /\ NumRows(new) = NumRows(old) + 1
                    /\ new[Len(new)].rows >= 1
                    /\ Cardinality({i \in DOMAIN new : new[i].open > 0}) <= 1)
          /\ (SplitExit(1) /\ w.n >= 1)
             => (/\ w.split \in DOMAIN split_infos(tree'[w.sha])
                 /\ split_infos(tree'[w.sha])[w.split] = w.n)]_vars


\* C28: variant registration.  After @config(variant=tag) is applied to a
\* class, the __variants__ of every config class in the decorated class's
\* MRO, its config base class in particular, maps tag to the decorated
\* class; no class statement removes or changes an entry of another tag;
\* so the entry selected by type=tag on the base is the decorated class,
\* which offers the base's fields and its own, with its own defaults.
C28_VariantRegistration ==
    [][\A name \in ClassNames, parent \in ClassNames \cup {NoParent},
          variant \in Variants \cup {NoVariant}, body \in ClassBodies,
          strType \in BOOLEAN :
            config(name, parent, variant, body, strType)
            => /\ \A c \in DOMAIN variants : \A v \in DOMAIN variants[c] \ {variant} :
                    /\ v \in DOMAIN variants'[c]
                    /\ variants'[c][v] = variants[c][v]
               /\ (~strType /\ variant # NoVariant)
                  => /\ \A c \in Mro(classes', Clz(name)) \cap DOMAIN variants' :
                           /\ variant \in DOMAIN variants'[c]
                           /\ variants'[c][variant] = Clz(name)
                     /\ Config \in Mro(classes', Clz(name))
                     /\ parent # NoParent
                        => LET built == variants'[Clz(parent)][variant]
                           IN  /\ built = Clz(name)
                               /\ DOMAIN classes'[built].fields
                                  = DOMAIN classes[Clz(parent)].fields \cup DOMAIN body
                               /\ \A f \in DOMAIN body :
                                      classes'[built].fields[f] = body[f]]_vars

\* VariantBase registered as "base", then Variant1(VariantBase) as "v1"
C28_Witness ==
    /\ Clz("Variant1") \in DOMAIN variants
    /\ Clz("VariantBase") \in Mro(classes, Clz("Variant1"))
    /\ DOMAIN variants[Clz("VariantBase")] = {"base", "v1"}
    /\ variants[Clz("VariantBase")]["base"] = Clz("VariantBase")
    /\ variants[Clz("VariantBase")]["v1"] = Clz("Variant1")
    /\ variants[Config]["v1"] = Clz("Variant1")
    /\ classes[Clz("VariantBase")].fields = [f \in {"a"} |-> "1"]
    /\ DOMAIN classes[Clz("Variant1")].fields = {"a", "b", "c"}
    /\ classes[Clz("Variant1")].fields["a"] = "2"

\* C29: a raw hash resolves to itself.  For every hash H present in the
\* store, lookup(H) returns a handle whose sha256 is H after any sequence
\* of register and deregister calls, also after an alias whose name is the
\* string H has been registered for a different hash.
C29_RawHashResolvesToItself ==
    [][\A r \in Handles, h \in Hashes :
          (Lookup(1, r, h) /\ h \in dirs)
          => (last'[1].out = "Data" /\ last'[1].sha = h)]_vars

\* C30: split names round-trip through the store.  When an initialize(hash)
\* scope completes, split_infos() of lookup(hash) lists every split that was
\* opened with writer.split(name) in the scope and no other name, a split
\* that received no batch and a split named "aux" included.
C30_SplitNamesRoundTrip ==
    [][ScopeExit(1)
       => DOMAIN split_infos(tree'[writer[1].sha]) = writer[1].opened]_vars

====
